---- MODULE Spec2Model ----
(***************************************************************************)
(* Model of check_git_untracked.py: main() enumerates the entries of the   *)
(* parent directory, runs `git status` in every git repository, parses the *)
(* textual output line by line (get_git_status) and prints a report.       *)
(* Strings are sequences of one-character strings, so that strip, split,   *)
(* lower, startswith and the substring test are computed, not assumed.     *)
(***************************************************************************)
EXTENDS Integers, Sequences, FiniteSets, TLC

\* ------------------------------------------------------------------------
\* Bounds of the model
\* ------------------------------------------------------------------------
\* longest enumerated status output, in lines
MaxLines == 3
\* longest enumerated directory listing, in entries
MaxItems == 3

\* ------------------------------------------------------------------------
\* String constants of the program
\* ------------------------------------------------------------------------
\* current_section = None
None == "None"

HeaderStaged ==
    <<"C", "h", "a", "n", "g", "e", "s", " ", "t", "o", " ", "b", "e", " ", "c", "o", "m", "m", "i", "t", "t", "e", "d", ":">>
HeaderModified ==
    <<"C", "h", "a", "n", "g", "e", "s", " ", "n", "o", "t", " ", "s", "t", "a", "g", "e", "d", " ", "f", "o", "r", " ", "c", "o", "m", "m", "i", "t", ":">>
HeaderUntracked ==
    <<"U", "n", "t", "r", "a", "c", "k", "e", "d", " ", "f", "i", "l", "e", "s", ":">>
HintUseGit ==
    <<"u", "s", "e", " ", "\"", "g", "i", "t">>
HintInclude ==
    <<"i", "n", "c", "l", "u", "d", "e", " ", "i", "n", " ", "w", "h", "a", "t", " ", "w", "i", "l", "l", " ", "b", "e", " ", "c", "o", "m", "m", "i", "t", "t", "e", "d">>
HintNoChanges ==
    <<"n", "o", " ", "c", "h", "a", "n", "g", "e", "s", " ", "a", "d", "d", "e", "d">>

\* ------------------------------------------------------------------------
\* The string methods the parser uses
\* ------------------------------------------------------------------------
\* characters removed by str.strip()
Whitespace == {" ", "\t", "\r"}

UpperLetters ==
    <<"A", "B", "C", "D", "E", "F", "G", "H", "I", "J", "K", "L", "M", "N", "O", "P", "Q", "R", "S", "T", "U", "V", "W", "X", "Y", "Z">>
LowerLetters ==
    <<"a", "b", "c", "d", "e", "f", "g", "h", "i", "j", "k", "l", "m", "n", "o", "p", "q", "r", "s", "t", "u", "v", "w", "x", "y", "z">>

\* str.lower() on one character
LowerChar(c) ==
    IF \E k \in 1..Len(UpperLetters) : UpperLetters[k] = c
    THEN LowerLetters[CHOOSE k \in 1..Len(UpperLetters) : UpperLetters[k] = c]
    ELSE c

\* str.lower()
Lower(s) == [k \in 1..Len(s) |-> LowerChar(s[k])]

\* needle in hay
Contains(hay, needle) ==
    \E k \in 0..(Len(hay) - Len(needle)) :
        SubSeq(hay, k + 1, k + Len(needle)) = needle

\* s.startswith(prefix)
StartsWith(s, prefix) ==
    /\ Len(s) >= Len(prefix)
    /\ SubSeq(s, 1, Len(prefix)) = prefix

\* s.strip()
Strip(s) ==
    IF \A k \in 1..Len(s) : s[k] \in Whitespace
    THEN <<>>
    ELSE LET first == CHOOSE k \in 1..Len(s) :
                          /\ s[k] \notin Whitespace
                          /\ \A j \in 1..(k - 1) : s[j] \in Whitespace
             last  == CHOOSE k \in 1..Len(s) :
                          /\ s[k] \notin Whitespace
                          /\ \A j \in (k + 1)..Len(s) : s[j] \in Whitespace
         IN  SubSeq(s, first, last)

\* index of the first occurrence of character c in s (c occurs in s)
FirstIndex(s, c) ==
    CHOOSE k \in 1..Len(s) : s[k] = c /\ \A j \in 1..(k - 1) : s[j] # c

\* s.rsplit(':', 1) for a string that contains a colon
SplitColonLast(s) ==
    LET k == CHOOSE c \in 1..Len(s) : s[c] = ":" /\ \A j \in (c + 1)..Len(s) : s[j] # ":"
    IN  <<SubSeq(s, 1, k - 1), SubSeq(s, k + 1, Len(s))>>

\* s.split(':', 1) for a string that contains a colon
SplitColon(s) ==
    LET k == FirstIndex(s, ":")
    IN  <<SubSeq(s, 1, k - 1), SubSeq(s, k + 1, Len(s))>>

RECURSIVE SplitLines(_)
\* output.split('\n')
SplitLines(s) ==
    IF \A k \in 1..Len(s) : s[k] # "\n"
    THEN <<s>>
    ELSE LET k == FirstIndex(s, "\n")
         IN  <<SubSeq(s, 1, k - 1)>> \o SplitLines(SubSeq(s, k + 1, Len(s)))

\* ------------------------------------------------------------------------
\* Classification of one line of the status output
\* ------------------------------------------------------------------------
\* the header tests made in the order untracked, modified, staged
HeaderSectionUntrackedFirst(line) ==
    IF Contains(line, HeaderUntracked) THEN "untracked"
    ELSE IF Contains(line, HeaderModified) THEN "modified"
    ELSE IF Contains(line, HeaderStaged) THEN "staged"
    ELSE None

\* the header tests in a different order of sections
HeaderSectionSwapped(line) ==
    IF Contains(line, HeaderStaged) THEN "modified"
    ELSE IF Contains(line, HeaderModified) THEN "staged"
    ELSE IF Contains(line, HeaderUntracked) THEN "untracked"
    ELSE None

\* the section a header line switches to, None when the line has no header
HeaderSection(line) ==
    IF Contains(line, HeaderStaged) THEN "staged"
    ELSE IF Contains(line, HeaderModified) THEN "modified"
    ELSE IF Contains(line, HeaderUntracked) THEN "untracked"
    ELSE None

IsBlank(line) == Strip(line) = <<>>

Indented(line) == StartsWith(line, <<"\t">>) \/ StartsWith(line, <<" ", " ">>)

\* the hint test without lower()
IsHintCaseSensitive(line) ==
    \/ Contains(line, HintUseGit)
    \/ Contains(line, HintInclude)
    \/ Contains(line, HintNoChanges)

IsHint(line) ==
    \/ Contains(Lower(line), HintUseGit)
    \/ Contains(Lower(line), HintInclude)
    \/ Contains(Lower(line), HintNoChanges)

\* the entry stored for a trimmed line of a staged or modified section
PrefixedEntry(stripped) ==
    IF Contains(stripped, <<":">>)
    THEN LET parts == SplitColon(stripped)
         IN  Strip(parts[1]) \o <<":", " ">> \o Strip(parts[2])
    ELSE stripped

\* the extraction with a last branch that does not test the section
ExtractElse(info, section, line) ==
    LET stripped == Strip(line)
    IN  IF stripped # <<>> /\ ~StartsWith(stripped, <<"(">>)
        THEN IF section \in {"modified", "staged"}
             THEN [info EXCEPT ![section] = Append(@, PrefixedEntry(stripped))]
             ELSE [info EXCEPT !["untracked"] = Append(@, stripped)]
        ELSE info

\* the extraction that stores the untracked line as read
ExtractUntrimmed(info, section, line) ==
    LET stripped == Strip(line)
    IN  IF stripped # <<>> /\ ~StartsWith(stripped, <<"(">>)
        THEN IF section \in {"modified", "staged"}
             THEN [info EXCEPT ![section] = Append(@, PrefixedEntry(stripped))]
             ELSE IF section = "untracked"
                  THEN [info EXCEPT ![section] = Append(@, line)]
                  ELSE info
        ELSE info

\* the extraction without the test for an opening parenthesis
ExtractNoParen(info, section, line) ==
    LET stripped == Strip(line)
    IN  IF stripped # <<>>
        THEN IF section \in {"modified", "staged"}
             THEN [info EXCEPT ![section] = Append(@, PrefixedEntry(stripped))]
             ELSE IF section = "untracked"
                  THEN [info EXCEPT ![section] = Append(@, stripped)]
                  ELSE info
        ELSE info

\* status_info after the file-name extraction of one line
Extract(info, section, line) ==
    LET stripped == Strip(line)
    IN  IF stripped # <<>> /\ ~StartsWith(stripped, <<"(">>)
        THEN IF section \in {"modified", "staged"}
             THEN [info EXCEPT ![section] = Append(@, PrefixedEntry(stripped))]
             ELSE IF section = "untracked"
                  THEN [info EXCEPT ![section] = Append(@, stripped)]
                  ELSE info
        ELSE info

EmptyInfo == [modified |-> <<>>, staged |-> <<>>, untracked |-> <<>>]

\* a return value of get_git_status: Absent is None, Some(info) is the dict
Absent == <<>>
Some(info) == <<info>>

\* the return without the test for empty sequences
ParseResultAlways(info) == Some(info)

\* the value get_git_status returns after the pass
ParseResult(info) ==
    IF info.modified # <<>> \/ info.staged # <<>> \/ info.untracked # <<>>
    THEN Some(info)
    ELSE Absent

\* ------------------------------------------------------------------------
\* Inputs: lines of status output, status outputs, directory entries
\* ------------------------------------------------------------------------
LnBlank ==
    <<>>
LnSpaces ==
    <<" ", " ">>
LnModA ==
    <<"\t", "m", "o", "d", "i", "f", "i", "e", "d", ":", " ", " ", " ", "a", ".", "t", "x", "t">>
LnB ==
    <<"\t", "b", ".", "t", "x", "t">>
LnNewXY ==
    <<" ", " ", "n", "e", "w", " ", "f", "i", "l", "e", ":", " ", "x", ":", "y">>
LnParen ==
    <<" ", " ", "(", "u", "s", "e", " ", "\"", "g", "i", "t", " ", "a", "d", "d", "\"", ")">>
LnHintNoChanges ==
    <<"N", "o", " ", "c", "h", "a", "n", "g", "e", "s", " ", "a", "d", "d", "e", "d", " ", "t", "o", " ", "c", "o", "m", "m", "i", "t">>
LnHintUse ==
    <<"U", "s", "e", " ", "\"", "g", "i", "t", " ", "a", "d", "d", "\"", " ", "t", "o", " ", "t", "r", "a", "c", "k">>
LnBranch ==
    <<"O", "n", " ", "b", "r", "a", "n", "c", "h", " ", "m", "a", "i", "n">>
LnNothing ==
    <<"n", "o", "t", "h", "i", "n", "g", " ", "t", "o", " ", "c", "o", "m", "m", "i", "t">>
LnIndentedHint ==
    <<"\t", "U", "s", "e", " ", "\"", "g", "i", "t", ".", "m", "d">>
LnOneSpace ==
    <<" ", "c", ".", "t", "x", "t">>
LnHeaderInPath ==
    <<"\t", "U", "n", "t", "r", "a", "c", "k", "e", "d", " ", "f", "i", "l", "e", "s", ":", "x">>
LnParenPlain ==
    <<" ", " ", "(", "n", "e", "w", " ", "c", "o", "m", "m", "i", "t", "s", ")">>
LnHintWithHeader ==
    <<"U", "n", "t", "r", "a", "c", "k", "e", "d", " ", "f", "i", "l", "e", "s", ":", " ", "u", "s", "e", " ", "\"", "g", "i", "t", " ", "a", "d", "d", "\"">>
LnTwoHeaders ==
    <<"U", "n", "t", "r", "a", "c", "k", "e", "d", " ", "f", "i", "l", "e", "s", ":", " ", "C", "h", "a", "n", "g", "e", "s", " ", "t", "o", " ", "b", "e", " ", "c", "o", "m", "m", "i", "t", "t", "e", "d", ":">>
\* the lines the enumerated status outputs are made of
LineSet ==
    {HeaderStaged, HeaderModified, HeaderUntracked, LnBlank, LnSpaces,
     LnModA, LnB, LnNewXY, LnParen, LnHintNoChanges, LnBranch, LnIndentedHint}

RECURSIVE JoinLines(_)
\* the text whose lines are ls (ls is not empty)
JoinLines(ls) ==
    IF Len(ls) = 1 THEN ls[1]
    ELSE ls[1] \o <<"\n">> \o JoinLines(Tail(ls))

\* staged a.txt, untracked b.txt
Scenario1 == <<HeaderStaged, LnModA, LnBlank, HeaderUntracked, LnB>>
\* a section closed by a plain line, an indented line, a new section
ScenarioClosed == <<HeaderStaged, LnModA, LnBranch, LnB, HeaderUntracked, LnB>>
\* output of git status with one staged and one untracked file
ScenarioGit ==
    <<LnBranch, HeaderStaged, LnParen, LnModA, LnBlank, HeaderUntracked,
      LnParen, LnB, LnBlank>>
\* output of git status in a clean repository
ScenarioClean == <<LnBranch, LnNothing>>
\* two modified files followed by the closing hint of git status
ScenarioModified ==
    <<HeaderModified, LnModA, LnNewXY, LnBlank, LnHintNoChanges, LnB>>
\* a line that holds two header strings
ScenarioTwoHeaders == <<LnTwoHeaders, LnB, LnHintUse, LnModA>>

\* two blank lines between a header and its file
ScenarioBlanks == <<HeaderStaged, LnBlank, LnSpaces, LnModA, LnBlank, LnB>>

\* lines with colons in the staged and in the untracked section
ScenarioColons == <<HeaderStaged, LnModA, LnNewXY, HeaderUntracked, LnModA>>

\* a line indented by one space only
ScenarioMargin == <<HeaderUntracked, LnB, LnOneSpace, LnB>>
\* a file line whose path holds a header string
ScenarioHeaderInPath == <<HeaderStaged, LnModA, LnHeaderInPath, LnB>>

\* a line at the left margin that holds a header string and a hint phrase
ScenarioHintHeader == <<HeaderStaged, LnModA, LnHintWithHeader, LnB>>

\* an indented line in parentheses that holds no hint phrase
ScenarioParen == <<HeaderModified, LnParenPlain, LnSpaces, LnModA>>

\* the three kinds of hint line: in parentheses, at the margin, indented
ScenarioHints == <<HeaderUntracked, LnParen, LnHintUse, LnIndentedHint, LnB>>

\* a header string in a path, then two header strings in one line
ScenarioHeaders == <<HeaderModified, LnModA, LnHeaderInPath, LnB, LnTwoHeaders, LnB>>

\* indented lines that follow no header
ScenarioStray == <<LnB, LnModA>>

Scenarios ==
    {Scenario1, ScenarioClosed, ScenarioGit, ScenarioClean, ScenarioModified,
     ScenarioTwoHeaders, ScenarioBlanks, ScenarioColons, ScenarioMargin,
     ScenarioHeaderInPath, ScenarioHintHeader, ScenarioParen, ScenarioHints,
     ScenarioHeaders, ScenarioStray}

\* every sequence over S of length 1..n
SeqsUpTo(S, n) == UNION {[1..k -> S] : k \in 1..n}

\* status outputs of the parser specification
ParseOutputs == {JoinLines(ls) : ls \in SeqsUpTo(LineSet, MaxLines) \cup Scenarios}

\* status outputs of the whole-program specification
MainOutputs ==
    {JoinLines(ls) : ls \in {ScenarioClosed, ScenarioClean, ScenarioModified, ScenarioStray}}

\* names of the entries of the parent directory
NameList == <<"a", "b", "c", "d", "e", "f">>

\* what the file system and git hold for one entry of the parent directory:
\* kind of the entry, kind of its .git child, outcome of git status, stdout
Profile(kind, git, run, output) ==
    [kind |-> kind, git |-> git, run |-> run, output |-> output]

Profiles(outputs) ==
    {Profile("file", "none", "ok", <<>>),
     Profile("dir", "none", "ok", <<>>),
     Profile("dir", "file", "ok", <<>>),
     Profile("dir", "dir", "raise", <<>>),
     Profile("dir", "dir", "nonzero", <<>>)}
    \cup {Profile("dir", "dir", "ok", o) : o \in outputs}

\* the listings of n entries: the first names, starting anywhere in the cycle
Listings(n) ==
    {[k \in 1..n |-> NameList[((k - 1 + r) % MaxItems) + 1]] : r \in 0..(MaxItems - 1)}

Range(f) == {f[x] : x \in DOMAIN f}

\* ------------------------------------------------------------------------
\* State
\* ------------------------------------------------------------------------
VARIABLES
    listable,               \* os.listdir(parent_dir) succeeds
    listing,                \* the names os.listdir(parent_dir) returns
    entries,                \* name -> what the entry is and what git does there
    pc,                     \* position of the program
    idx,                    \* position of main's loop in listing
    git_repos,
    repos_with_changes,
    total_modified_count,
    total_staged_count,
    total_untracked_count,
    lines,                  \* get_git_status: output.split('\n')
    li,                     \* get_git_status: position of the line loop
    current_section,
    status_info,
    origin,                 \* history: the line number each entry was read from
    ret,                    \* the value get_git_status returned
    out                     \* everything printed so far

envVars == <<listable, listing, entries>>
mainVars ==
    <<git_repos, repos_with_changes, total_modified_count, total_staged_count,
      total_untracked_count>>
parseVars == <<lines, li, current_section, status_info, origin>>
vars == <<envVars, pc, idx, mainVars, parseVars, ret, out>>

\* one printed item: what it is, the repository it names, its numbers, its files
Event(ev, repo, n, files) == [ev |-> ev, repo |-> repo, n |-> n, files |-> files]

\* the state of the program when main() is entered
InitProgram ==
    /\ pc = "main"
    /\ idx = 0
    /\ git_repos = <<>>
    /\ repos_with_changes = <<>>
    /\ total_modified_count = 0
    /\ total_staged_count = 0
    /\ total_untracked_count = 0
    /\ lines = <<>>
    /\ li = 0
    /\ current_section = None
    /\ status_info = EmptyInfo
    /\ origin = EmptyInfo
    /\ ret = Absent
    /\ out = <<>>

\* a parent directory of up to MaxItems entries, few status outputs
Init ==
    /\ listable \in BOOLEAN
    /\ listing \in IF listable THEN UNION {Listings(n) : n \in 0..MaxItems} ELSE {<<>>}
    /\ entries \in [Range(listing) -> Profiles(MainOutputs)]
    /\ InitProgram

\* a parent directory of one entry, every enumerated status output
InitParse ==
    /\ listable \in BOOLEAN
    /\ listing \in IF listable THEN {<<NameList[1]>>} ELSE {<<>>}
    /\ entries \in [Range(listing) -> Profiles(ParseOutputs)]
    /\ InitProgram

\* ------------------------------------------------------------------------
\* main(): enumeration of the parent directory
\* ------------------------------------------------------------------------
item == listing[idx]

\* os.path.isdir(item_path)
IsDir(name) == entries[name].kind = "dir"

\* the test with os.path.exists in place of os.path.isdir
is_git_repo_exists(name) ==
    entries[name].kind = "dir" /\ entries[name].git \in {"dir", "file"}

\* is_git_repo(item_path)
is_git_repo(name) == entries[name].kind = "dir" /\ entries[name].git = "dir"

\* os.listdir raises and the handler does not return
ListDirFailNoReturn ==
    /\ pc = "main"
    /\ ~listable
    /\ out' = out \o <<Event("scan", "", <<>>, <<>>), Event("error", "", <<>>, <<>>)>>
    /\ idx' = 1
    /\ pc' = "loop"
    /\ UNCHANGED <<envVars, mainVars, parseVars, ret>>

\* os.listdir raises: the error is printed and main returns
ListDirFail ==
    /\ pc = "main"
    /\ ~listable
    /\ out' = out \o <<Event("scan", "", <<>>, <<>>), Event("error", "", <<>>, <<>>)>>
    /\ pc' = "wait"
    /\ UNCHANGED <<envVars, idx, mainVars, parseVars, ret>>

\* os.listdir returns: the loop starts at the first entry
ListDirOK ==
    /\ pc = "main"
    /\ listable
    /\ out' = Append(out, Event("scan", "", <<>>, <<>>))
    /\ idx' = 1
    /\ pc' = "loop"
    /\ UNCHANGED <<envVars, mainVars, parseVars, ret>>

\* the entry is not a directory
SkipNonDir ==
    /\ pc = "loop"
    /\ idx <= Len(listing)
    /\ ~IsDir(item)
    /\ idx' = idx + 1
    /\ UNCHANGED <<envVars, pc, mainVars, parseVars, ret, out>>

\* the entry is a directory without a .git directory
SkipNonRepo ==
    /\ pc = "loop"
    /\ idx <= Len(listing)
    /\ IsDir(item)
    /\ ~is_git_repo(item)
    /\ idx' = idx + 1
    /\ UNCHANGED <<envVars, pc, mainVars, parseVars, ret, out>>

\* the entry is a repository: it is counted and get_git_status is called
EnterRepo ==
    /\ pc = "loop"
    /\ idx <= Len(listing)
    /\ IsDir(item)
    /\ is_git_repo(item)
    /\ git_repos' = Append(git_repos, item)
    /\ pc' = "git_status"
    /\ UNCHANGED <<envVars, idx, repos_with_changes, total_modified_count,
                   total_staged_count, total_untracked_count, parseVars, ret, out>>

\* ------------------------------------------------------------------------
\* get_git_status(): the status command
\* ------------------------------------------------------------------------
\* subprocess.run raises and nothing catches it before main does
RunGitRaiseUncaught ==
    /\ pc = "git_status"
    /\ entries[item].run = "raise"
    /\ out' = Append(out, Event("error", "", <<>>, <<>>))
    /\ pc' = "wait"
    /\ UNCHANGED <<envVars, idx, mainVars, parseVars, ret>>

\* subprocess.run raises: the error is printed, None is returned
RunGitRaise ==
    /\ pc = "git_status"
    /\ entries[item].run = "raise"
    /\ out' = Append(out, Event("error_repo", item, <<>>, <<>>))
    /\ ret' = Absent
    /\ pc' = "fold"
    /\ UNCHANGED <<envVars, idx, mainVars, parseVars>>

\* git status exits with a non-zero code: None is returned
RunGitNonZero ==
    /\ pc = "git_status"
    /\ entries[item].run = "nonzero"
    /\ ret' = Absent
    /\ pc' = "fold"
    /\ UNCHANGED <<envVars, idx, mainVars, parseVars, out>>

\* the start of the parse with the section kept from the parse before
RunGitOKStaleSection ==
    /\ pc = "git_status"
    /\ entries[item].run = "ok"
    /\ status_info' = EmptyInfo
    /\ origin' = EmptyInfo
    /\ lines' = SplitLines(entries[item].output)
    /\ li' = 1
    /\ pc' = "parse"
    /\ UNCHANGED <<envVars, idx, mainVars, current_section, ret, out>>

\* git status exits with 0: the parse of its output starts
RunGitOK ==
    /\ pc = "git_status"
    /\ entries[item].run = "ok"
    /\ status_info' = EmptyInfo
    /\ origin' = EmptyInfo
    /\ lines' = SplitLines(entries[item].output)
    /\ current_section' = None
    /\ li' = 1
    /\ pc' = "parse"
    /\ UNCHANGED <<envVars, idx, mainVars, ret, out>>

\* ------------------------------------------------------------------------
\* get_git_status(): one pass of the line loop
\* ------------------------------------------------------------------------
line == lines[li]

AtLine == pc = "parse" /\ li <= Len(lines)

\* the line numbers of the entries, after a pass that made status_info info
Recorded(info) ==
    [s \in DOMAIN origin |->
        IF Len(info[s]) > Len(status_info[s]) THEN Append(origin[s], li)
        ELSE origin[s]]

\* the header line without the continue: the extraction runs on it
LineHeaderFallsThrough ==
    /\ AtLine
    /\ HeaderSection(line) # None
    /\ current_section' = HeaderSection(line)
    /\ status_info' = Extract(status_info, current_section', line)
    /\ origin' = Recorded(status_info')
    /\ li' = li + 1
    /\ UNCHANGED <<envVars, pc, idx, mainVars, lines, ret, out>>

\* the line holds a section header: the section is set, the line is dropped
LineHeader ==
    /\ AtLine
    /\ HeaderSection(line) # None
    /\ current_section' = HeaderSection(line)
    /\ li' = li + 1
    /\ UNCHANGED <<envVars, pc, idx, mainVars, lines, status_info, origin, ret, out>>

\* the blank line that ends the section
LineBlankEnds ==
    /\ AtLine
    /\ HeaderSection(line) = None
    /\ current_section # None
    /\ IsBlank(line)
    /\ current_section' = None
    /\ li' = li + 1
    /\ UNCHANGED <<envVars, pc, idx, mainVars, lines, status_info, origin, ret, out>>

\* a blank line in a section: nothing ends, nothing is extracted from it
LineBlank ==
    /\ AtLine
    /\ HeaderSection(line) = None
    /\ current_section # None
    /\ IsBlank(line)
    /\ status_info' = Extract(status_info, current_section, line)
    /\ origin' = Recorded(status_info')
    /\ li' = li + 1
    /\ UNCHANGED <<envVars, pc, idx, mainVars, lines, current_section, ret, out>>

\* the hint line that ends the section
LineHintEnds ==
    /\ AtLine
    /\ HeaderSection(line) = None
    /\ current_section # None
    /\ ~IsBlank(line)
    /\ ~Indented(line)
    /\ IsHint(line)
    /\ current_section' = None
    /\ li' = li + 1
    /\ UNCHANGED <<envVars, pc, idx, mainVars, lines, status_info, origin, ret, out>>

\* the hint line without the continue: the extraction runs on it
LineHintRecorded ==
    /\ AtLine
    /\ HeaderSection(line) = None
    /\ current_section # None
    /\ ~IsBlank(line)
    /\ ~Indented(line)
    /\ IsHint(line)
    /\ status_info' = Extract(status_info, current_section, line)
    /\ origin' = Recorded(status_info')
    /\ li' = li + 1
    /\ UNCHANGED <<envVars, pc, idx, mainVars, lines, current_section, ret, out>>

\* a hint line at the left margin in a section: skipped
LineHint ==
    /\ AtLine
    /\ HeaderSection(line) = None
    /\ current_section # None
    /\ ~IsBlank(line)
    /\ ~Indented(line)
    /\ IsHint(line)
    /\ li' = li + 1
    /\ UNCHANGED <<envVars, pc, idx, mainVars, lines, current_section,
                   status_info, origin, ret, out>>

\* the plain line that is skipped like a hint line
LineTerminatorKeeps ==
    /\ AtLine
    /\ HeaderSection(line) = None
    /\ current_section # None
    /\ ~IsBlank(line)
    /\ ~Indented(line)
    /\ ~IsHint(line)
    /\ li' = li + 1
    /\ UNCHANGED <<envVars, pc, idx, mainVars, lines, current_section,
                   status_info, origin, ret, out>>

\* any other line at the left margin in a section: the section ends
LineTerminator ==
    /\ AtLine
    /\ HeaderSection(line) = None
    /\ current_section # None
    /\ ~IsBlank(line)
    /\ ~Indented(line)
    /\ ~IsHint(line)
    /\ current_section' = None
    /\ li' = li + 1
    /\ UNCHANGED <<envVars, pc, idx, mainVars, lines, status_info, origin, ret, out>>

\* an indented line in a section: the file name is extracted
LineEntry ==
    /\ AtLine
    /\ HeaderSection(line) = None
    /\ current_section # None
    /\ ~IsBlank(line)
    /\ Indented(line)
    /\ status_info' = Extract(status_info, current_section, line)
    /\ origin' = Recorded(status_info')
    /\ li' = li + 1
    /\ UNCHANGED <<envVars, pc, idx, mainVars, lines, current_section, ret, out>>

\* a line outside every section: the extraction runs and stores nothing
LineOutside ==
    /\ AtLine
    /\ HeaderSection(line) = None
    /\ current_section = None
    /\ status_info' = Extract(status_info, current_section, line)
    /\ origin' = Recorded(status_info')
    /\ li' = li + 1
    /\ UNCHANGED <<envVars, pc, idx, mainVars, lines, current_section, ret, out>>

\* the lines are exhausted: the dict or None is returned
ParseReturn ==
    /\ pc = "parse"
    /\ li > Len(lines)
    /\ ret' = ParseResult(status_info)
    /\ pc' = "fold"
    /\ UNCHANGED <<envVars, idx, mainVars, parseVars, out>>

\* ------------------------------------------------------------------------
\* main(): aggregation and report
\* ------------------------------------------------------------------------
\* the fold that adds the staged count to the wrong total
FoldChangesSwapped ==
    /\ pc = "fold"
    /\ ret # Absent
    /\ repos_with_changes' =
           Append(repos_with_changes, [name |-> item, path |-> item, status |-> ret[1]])
    /\ total_modified_count' = total_modified_count + Len(ret[1].staged)
    /\ total_staged_count' = total_staged_count + Len(ret[1].modified)
    /\ total_untracked_count' = total_untracked_count + Len(ret[1].untracked)
    /\ idx' = idx + 1
    /\ pc' = "loop"
    /\ UNCHANGED <<envVars, git_repos, parseVars, ret, out>>

\* get_git_status returned a dict: the repository and its counts are added
FoldChanges ==
    /\ pc = "fold"
    /\ ret # Absent
    /\ repos_with_changes' =
           Append(repos_with_changes, [name |-> item, path |-> item, status |-> ret[1]])
    /\ total_modified_count' = total_modified_count + Len(ret[1].modified)
    /\ total_staged_count' = total_staged_count + Len(ret[1].staged)
    /\ total_untracked_count' = total_untracked_count + Len(ret[1].untracked)
    /\ idx' = idx + 1
    /\ pc' = "loop"
    /\ UNCHANGED <<envVars, git_repos, parseVars, ret, out>>

\* get_git_status returned None: the repository is left out
FoldNone ==
    /\ pc = "fold"
    /\ ret = Absent
    /\ idx' = idx + 1
    /\ pc' = "loop"
    /\ UNCHANGED <<envVars, mainVars, parseVars, ret, out>>

\* the lines printed for one repository with changes
RepoBlock(repo) ==
    <<Event("repo", repo.name, <<>>, <<>>)>>
    \o (IF repo.status.staged # <<>>
        THEN <<Event("staged", repo.name, <<Len(repo.status.staged)>>, repo.status.staged)>>
        ELSE <<>>)
    \o (IF repo.status.modified # <<>>
        THEN <<Event("modified", repo.name, <<Len(repo.status.modified)>>, repo.status.modified)>>
        ELSE <<>>)
    \o (IF repo.status.untracked # <<>>
        THEN <<Event("untracked", repo.name, <<Len(repo.status.untracked)>>, repo.status.untracked)>>
        ELSE <<>>)

RECURSIVE RepoBlocksReversed(_)
\* the detail blocks of the repositories, last repository first
RepoBlocksReversed(repos) ==
    IF repos = <<>> THEN <<>>
    ELSE RepoBlocksReversed(Tail(repos)) \o RepoBlock(Head(repos))

RECURSIVE RepoBlocks(_)
\* the detail blocks of the repositories, in the order of the list
RepoBlocks(repos) ==
    IF repos = <<>> THEN <<>>
    ELSE RepoBlock(Head(repos)) \o RepoBlocks(Tail(repos))

\* everything main prints after the loop
ReportLines ==
    <<Event("found", "", <<Len(git_repos)>>, <<>>),
      Event("changed", "", <<Len(repos_with_changes)>>, <<>>)>>
    \o (IF repos_with_changes # <<>>
        THEN RepoBlocks(repos_with_changes)
             \o <<Event("totals", "",
                        <<total_staged_count, total_modified_count, total_untracked_count>>,
                        <<>>)>>
        ELSE <<Event("clean", "", <<>>, <<>>)>>)

\* the loop is over: the report is printed
Report ==
    /\ pc = "loop"
    /\ idx > Len(listing)
    /\ out' = out \o ReportLines
    /\ pc' = "wait"
    /\ UNCHANGED <<envVars, idx, mainVars, parseVars, ret>>

\* input("Press Enter to continue...")
WaitKey ==
    /\ pc = "wait"
    /\ pc' = "done"
    /\ UNCHANGED <<envVars, idx, mainVars, parseVars, ret, out>>

Next ==
    \/ ListDirFail
    \/ ListDirOK
    \/ SkipNonDir
    \/ SkipNonRepo
    \/ EnterRepo
    \/ RunGitRaise
    \/ RunGitNonZero
    \/ RunGitOK
    \/ LineHeader
    \/ LineBlank
    \/ LineHint
    \/ LineTerminator
    \/ LineEntry
    \/ LineOutside
    \/ ParseReturn
    \/ FoldChanges
    \/ FoldNone
    \/ Report
    \/ WaitKey

Spec == Init /\ [][Next]_vars

SpecParse == InitParse /\ [][Next]_vars

TypeOK ==
    /\ pc \in {"main", "loop", "git_status", "parse", "fold", "wait", "done"}
    /\ current_section \in {None, "staged", "modified", "untracked"}
    /\ idx \in 0..(Len(listing) + 1)

\* ------------------------------------------------------------------------
\* Vocabulary of the properties
\* ------------------------------------------------------------------------
Sections == {"staged", "modified", "untracked"}

\* get_git_status has parsed the output of the current repository to its end
ParseDone == pc = "fold" /\ entries[item].run = "ok"

\* get_git_status is parsing, or has parsed, the output of the current repository
Parsing == pc = "parse" \/ ParseDone

\* the lines the loop has been through
Seen == 1..(li - 1)

\* the number of the most recent header line before line j, 0 when there is none
LastHeader(j) ==
    IF \E h \in 1..(j - 1) : HeaderSection(lines[h]) # None
    THEN CHOOSE h \in 1..(j - 1) :
             /\ HeaderSection(lines[h]) # None
             /\ \A m \in (h + 1)..(j - 1) : HeaderSection(lines[m]) = None
    ELSE 0

StrictlyIncreasing(f) == \A a, b \in DOMAIN f : a < b => f[a] < f[b]

ModA ==
    <<"m", "o", "d", "i", "f", "i", "e", "d", ":", " ", "a", ".", "t", "x", "t">>
B ==
    <<"b", ".", "t", "x", "t">>

FileLine(l) ==
    /\ Indented(l)
    /\ HeaderSection(l) = None
    /\ Strip(l) # <<>>
    /\ ~StartsWith(Strip(l), <<"(">>)

\* a line at the left margin that is neither blank nor a hint line
PlainLine(l) == ~IsBlank(l) /\ ~Indented(l) /\ ~IsHint(l)

\* line j was recorded in the sequence of section s
RecordedIn(s, j) == \E k \in 1..Len(origin[s]) : origin[s][k] = j

\* ------------------------------------------------------------------------
\* C2
\* ------------------------------------------------------------------------
\* C2, the step: a blank line read while a section is active leaves the
\* section and the three sequences as they are.
C2_BlankStep ==
    (AtLine /\ current_section # None /\ IsBlank(line)) =>
        (current_section' = current_section /\ status_info' = status_info)

\* C2, the history: a file line that follows a header line with one or more
\* blank lines, and nothing else, in between is recorded under the section of
\* that header, and none of the blank lines is recorded anywhere.
C2_BlankHistory ==
    Parsing =>
        \A j \in Seen : \A h \in 1..(j - 2) :
            ( /\ HeaderSection(lines[h]) # None
              /\ \A m \in (h + 1)..(j - 1) : IsBlank(lines[m])
              /\ FileLine(lines[j]) )
            => /\ RecordedIn(HeaderSection(lines[h]), j)
               /\ \A m \in (h + 1)..(j - 1) : \A s \in Sections : ~RecordedIn(s, m)

C3_Original ==
    [][(AtLine /\ current_section # None /\ PlainLine(line)) =>
           (current_section' = None /\ status_info' = status_info)]_vars

\* C3, the step: such a line that holds no header string sets the section to
\* none and records nothing.
C3_PlainStep ==
    (AtLine /\ current_section # None /\ PlainLine(line) /\ HeaderSection(line) = None) =>
        (current_section' = None /\ status_info' = status_info)

\* C3, the history: between the most recent header line and a recorded line
\* there is no plain line, so nothing is recorded after a plain line until a
\* header line has been read.
C3_PlainHistory ==
    Parsing =>
        \A s \in Sections : \A k \in 1..Len(origin[s]) :
            /\ ~PlainLine(lines[origin[s][k]])
            /\ \A m \in (LastHeader(origin[s][k]) + 1)..(origin[s][k] - 1) :
                   ~PlainLine(lines[m])

\* C3 (amended): a non-blank, non-indented line that holds neither a hint
\* phrase nor a section header string ends the active section: the section
\* becomes none, the line is not recorded, and no later line is recorded until
\* a line with a section header has been read.
C3_PlainLineEndsSection == [][C3_PlainStep]_vars /\ []C3_PlainHistory

\* a file line was read after a plain line ended the section, and was dropped
C3_Witness ==
    /\ Parsing
    /\ \E j \in Seen : \E m \in 1..(j - 1) :
          /\ FileLine(lines[j])
          /\ PlainLine(lines[m])
          /\ HeaderSection(lines[m]) = None
          /\ LastHeader(m) # 0
          /\ \A n \in (LastHeader(m) + 1)..(m - 1) : FileLine(lines[n])
          /\ \A n \in m..j : HeaderSection(lines[n]) = None
          /\ \A s \in Sections : ~RecordedIn(s, j)
          /\ status_info # EmptyInfo

\* ------------------------------------------------------------------------
\* C4
\* ------------------------------------------------------------------------
\* the status output of the current repository holds no section header string
NoHeaderText ==
    /\ ~Contains(entries[item].output, HeaderStaged)
    /\ ~Contains(entries[item].output, HeaderModified)
    /\ ~Contains(entries[item].output, HeaderUntracked)

\* C4: while and after parsing an output that holds none of the three header
\* strings the section is none and the three sequences are empty, and the
\* parser returns None.
C4_NoHeaderNoResult ==
    (Parsing /\ NoHeaderText) =>
        /\ current_section = None
        /\ status_info = EmptyInfo
        /\ ParseDone => ret = Absent

\* an output without header but with an indented file line was parsed to None
C4_Witness ==
    /\ ParseDone
    /\ NoHeaderText
    /\ \E j \in 1..Len(lines) : FileLine(lines[j])
    /\ ret = Absent

\* ------------------------------------------------------------------------
\* C5
\* ------------------------------------------------------------------------
\* C5, the step: on a line with a header string the parser sets the section,
\* moves to the next line and leaves the three sequences as they are.
C5_HeaderStep ==
    (AtLine /\ HeaderSection(line) # None) =>
        /\ current_section' \in Sections
        /\ li' = li + 1
        /\ status_info' = status_info
        /\ pc' = pc

\* C5, the history: no recorded entry was read from a line with a header string.
C5_HeaderHistory ==
    Parsing =>
        \A s \in Sections : \A j \in 1..Len(lines) :
            HeaderSection(lines[j]) # None => ~RecordedIn(s, j)

\* C5: a line that holds one of the three header strings is never recorded in
\* a result sequence; in every section state it only sets the section and
\* the loop moves on.
C5_HeaderNeverRecorded == [][C5_HeaderStep]_vars /\ []C5_HeaderHistory

\* a header line was read while another section was active and held an entry
C5_Witness ==
    /\ Parsing
    /\ li > 1
    /\ HeaderSection(lines[li - 1]) # None
    /\ LastHeader(li - 1) # 0
    /\ HeaderSection(lines[LastHeader(li - 1)]) # HeaderSection(lines[li - 1])
    /\ current_section = HeaderSection(lines[li - 1])
    /\ status_info # EmptyInfo

\* ------------------------------------------------------------------------
\* C6
\* ------------------------------------------------------------------------
NewXY ==
    <<"n", "e", "w", " ", "f", "i", "l", "e", ":", " ", "x", ":", "y">>

\* e is t cut at its first colon: the trimmed text before it, ": ", the
\* trimmed text after it
CutAtFirstColon(t, e) ==
    \E c \in 1..Len(t) :
        /\ t[c] = ":"
        /\ \A j \in 1..(c - 1) : t[j] # ":"
        /\ e = Strip(SubSeq(t, 1, c - 1)) \o <<":", " ">> \o Strip(SubSeq(t, c + 1, Len(t)))

HasColon(t) == \E c \in 1..Len(t) : t[c] = ":"

InSection(s, j) ==
    /\ LastHeader(j) # 0
    /\ HeaderSection(lines[LastHeader(j)]) = s
    /\ \A m \in (LastHeader(j) + 1)..(j - 1) : ~PlainLine(lines[m])

Processed == 1..(idx - 1)

\* the status command of repository name fails: it raises or exits non-zero
Failed(name) == is_git_repo(name) /\ entries[name].run \in {"raise", "nonzero"}

\* the names of the repositories in the list of repositories with changes
ChangedNames == [k \in 1..Len(repos_with_changes) |-> repos_with_changes[k].name]

\* the positions of out that hold an item of kind ev
Printed(ev) == {k \in 1..Len(out) : out[k].ev = ev}

\* ------------------------------------------------------------------------
\* C8
\* ------------------------------------------------------------------------
\* C8, the steps: a failing status command returns None, and main then moves
\* to the next entry without touching the list of repositories with changes
\* or the totals.
C8_FailureStep ==
    /\ (pc = "git_status" /\ Failed(item)) => (ret' = Absent /\ pc' = "fold")
    /\ (pc = "fold" /\ Failed(item)) =>
           /\ ret = Absent
           /\ pc' = "loop"
           /\ idx' = idx + 1
           /\ UNCHANGED mainVars

\* C8, the outcome: no processed repository whose status command failed is in
\* the list of repositories with changes; when the program ends after a
\* listing that succeeded, every repository of the listing was visited, the
\* report was printed and it names no repository whose status command failed.
C8_FailureOutcome ==
    /\ \A k \in Processed :
           Failed(listing[k]) => \A n \in DOMAIN ChangedNames : ChangedNames[n] # listing[k]
    /\ (pc = "done" /\ listable) =>
           /\ git_repos = SelectSeq(listing, is_git_repo)
           /\ \E k \in Printed("found") : out[k].n = <<Len(git_repos)>>
           /\ \E k \in Printed("changed") : out[k].n = <<Len(repos_with_changes)>>
           /\ \A k \in DOMAIN out : out[k].repo # "" => ~Failed(out[k].repo) \/ out[k].ev = "error_repo"

\* C8: a repository whose status command exits non-zero or raises yields None,
\* is left out of the report and of the totals, and does not stop the run:
\* the later repositories are processed and the report is printed.
C8_FailureIsSkipped == [][C8_FailureStep]_vars /\ []C8_FailureOutcome

\* the program ended after a raising and a non-zero status command, each
\* followed by a repository that made it into the report
C8_Witness ==
    /\ pc = "done"
    /\ Len(listing) = 3
    /\ entries[listing[1]].run = "raise" /\ Failed(listing[1])
    /\ entries[listing[2]].run = "nonzero" /\ Failed(listing[2])
    /\ ChangedNames = <<listing[3]>>
    /\ Printed("totals") # {}
    /\ \E k \in Printed("repo") : out[k].repo = listing[3]

\* ------------------------------------------------------------------------
\* C9
\* ------------------------------------------------------------------------
\* C9: for every processed repository whose status command raised or exited
\* non-zero an error message naming that repository has been printed.
C9_FailuresLogged ==
    \A k \in Processed :
        Failed(listing[k]) =>
            \E e \in Printed("error_repo") : out[e].repo = listing[k]

\* ------------------------------------------------------------------------
\* C10
\* ------------------------------------------------------------------------
\* what get_git_status is to return for the status outputs of Spec
ExpectedReport(output) ==
    IF output = JoinLines(ScenarioClosed)
    THEN Some([staged |-> <<ModA>>, modified |-> <<>>, untracked |-> <<B>>])
    ELSE IF output = JoinLines(ScenarioModified)
    THEN Some([staged |-> <<>>, modified |-> <<ModA, NewXY, B>>, untracked |-> <<>>])
    ELSE Absent

\* the parse of candidate name returns a non-empty StatusReport
HasReport(name) ==
    /\ is_git_repo(name)
    /\ entries[name].run = "ok"
    /\ ExpectedReport(entries[name].output) # Absent

RECURSIVE SumLen(_, _)
\* the sum of the lengths of the section-s sequences of the names
SumLen(names, s) ==
    IF names = <<>> THEN 0
    ELSE Len(ExpectedReport(entries[Head(names)].output)[1][s]) + SumLen(Tail(names), s)

\* C10: at every point of the run the list of repositories with changes holds
\* exactly the processed candidates whose parse returned a non-empty
\* StatusReport, in order and with that report, and the three totals are the
\* sums of the lengths of their staged, modified and untracked sequences; the
\* report printed at the end lists those repositories and those totals.
C10_TotalsMatchReports ==
    LET reported == SelectSeq(SubSeq(listing, 1, idx - 1), HasReport)
    IN  /\ ChangedNames = reported
        /\ \A k \in 1..Len(repos_with_changes) :
               Some(repos_with_changes[k].status) =
                   ExpectedReport(entries[repos_with_changes[k].name].output)
        /\ total_staged_count = SumLen(reported, "staged")
        /\ total_modified_count = SumLen(reported, "modified")
        /\ total_untracked_count = SumLen(reported, "untracked")
        /\ (pc = "done" /\ listable) =>
               /\ reported = SelectSeq(listing, HasReport)
               /\ Cardinality(Printed("repo")) = Len(reported)
               /\ reported # <<>> =>
                      \E k \in Printed("totals") :
                          out[k].n = <<SumLen(reported, "staged"),
                                       SumLen(reported, "modified"),
                                       SumLen(reported, "untracked")>>

\* three candidate repositories, one of them with changes: the report lists
\* that one and its three counts
C10_Witness ==
    /\ pc = "done"
    /\ Len(listing) = 3
    /\ \A k \in 1..3 : is_git_repo(listing[k])
    /\ entries[listing[1]].output = JoinLines(ScenarioClean)
    /\ entries[listing[2]].output = JoinLines(ScenarioClosed)
    /\ entries[listing[3]].run = "nonzero"
    /\ Cardinality(Printed("repo")) = 1
    /\ \E k \in Printed("totals") : out[k].n = <<1, 0, 1>>

\* ------------------------------------------------------------------------
\* C11
\* ------------------------------------------------------------------------
\* the position of x in the sequence seq (x occurs once in seq)
PosIn(seq, x) == CHOOSE k \in 1..Len(seq) : seq[k] = x

IsRepoEvent(e) == e.ev = "repo"

\* the names of the detail blocks printed so far, in the order of printing
PrintedRepos ==
    LET evs == SelectSeq(out, IsRepoEvent)
    IN  [k \in 1..Len(evs) |-> evs[k].repo]

\* C11: the repositories with changes are kept in the order in which the
\* directory listing returned them, and the detail blocks of the report are
\* printed in that same order: the block of A comes before the block of B
\* exactly when the listing returned A before B.
C11_ReportInListingOrder ==
    /\ \A a, b \in 1..Len(ChangedNames) :
           a < b <=> PosIn(listing, ChangedNames[a]) < PosIn(listing, ChangedNames[b])
    /\ \A a, b \in 1..Len(PrintedRepos) :
           a < b <=> PosIn(listing, PrintedRepos[a]) < PosIn(listing, PrintedRepos[b])
    /\ (pc \in {"wait", "done"} /\ listable) => PrintedRepos = ChangedNames

\* the report of a listing that is not in alphabetical order holds two
\* detail blocks
C11_Witness ==
    /\ pc = "done"
    /\ Len(PrintedRepos) >= 2
    /\ PosIn(NameList, PrintedRepos[1]) > PosIn(NameList, PrintedRepos[2])
    /\ PosIn(listing, PrintedRepos[1]) < PosIn(listing, PrintedRepos[2])

\* ------------------------------------------------------------------------
\* C12
\* ------------------------------------------------------------------------
\* C12, the step: when the listing fails main prints the error and returns,
\* which leaves the program at the final keypress wait.
C12_AbortStep ==
    (pc = "main" /\ ~listable) =>
        /\ pc' = "wait"
        /\ \E k \in 1..Len(out') : out'[k].ev = "error"
        /\ UNCHANGED mainVars

\* C12, the outcome: when the listing fails the program is only ever at its
\* start, at the keypress wait or at its end; no repository was entered, no
\* status output was read, and nothing but the heading and the error was
\* printed: no repository count, no detail block, no totals.
C12_AbortOutcome ==
    ~listable =>
        /\ pc \in {"main", "wait", "done"}
        /\ git_repos = <<>>
        /\ repos_with_changes = <<>>
        /\ lines = <<>>
        /\ \A k \in 1..Len(out) : out[k].ev \in {"scan", "error"}
        /\ pc # "main" => Printed("error") # {}

\* C12: if the parent directory cannot be listed the error is printed and
\* the run ends early: no status command runs, no count, detail or totals is
\* printed, and only the final keypress wait remains.
C12_ListingFailureAborts == [][C12_AbortStep]_vars /\ []C12_AbortOutcome

\* the program ended after a failed listing with the heading and the error
C12_Witness ==
    /\ ~listable
    /\ pc = "done"
    /\ Len(out) = 2
    /\ out[2].ev = "error"

\* ------------------------------------------------------------------------
\* C13
\* ------------------------------------------------------------------------
\* the one repository of the listing was parsed and folded
ParsedAndFolded == idx = 2 /\ is_git_repo(listing[1]) /\ entries[listing[1]].run = "ok"

\* C13: the parser returns the StatusReport when one of its three sequences
\* is not empty and None when all three are empty, headers seen or not; every
\* repository in the list of repositories with changes has a non-empty
\* sequence, and a repository parsed to three empty sequences is not in the
\* list and leaves the totals at zero.
C13_OnlyNonEmptyReports ==
    /\ ParseDone =>
           IF status_info.staged = <<>> /\ status_info.modified = <<>>
              /\ status_info.untracked = <<>>
           THEN ret = Absent
           ELSE ret = Some(status_info)
    /\ \A k \in 1..Len(repos_with_changes) :
           \E s \in Sections : repos_with_changes[k].status[s] # <<>>
    /\ (ParsedAndFolded /\ \A s \in Sections : status_info[s] = <<>>) =>
           /\ repos_with_changes = <<>>
           /\ total_staged_count = 0
           /\ total_modified_count = 0
           /\ total_untracked_count = 0

\* an output with a header and no entry was parsed, and the report of the
\* run says that every repository is clean
C13_Witness ==
    /\ pc = "done"
    /\ ParsedAndFolded
    /\ \E j \in 1..Len(lines) : HeaderSection(lines[j]) # None
    /\ \A s \in Sections : status_info[s] = <<>>
    /\ repos_with_changes = <<>>
    /\ Printed("clean") # {}

\* ------------------------------------------------------------------------
\* C14
\* ------------------------------------------------------------------------
\* the entry is a directory that holds a subdirectory named .git
HasGitDir(name) == entries[name].kind = "dir" /\ entries[name].git = "dir"

\* the program is inside get_git_status or about to fold its result
InStatus == pc \in {"git_status", "parse", "fold"}

\* the entries the loop has classified
Classified == SubSeq(listing, 1, IF InStatus THEN idx ELSE idx - 1)

\* C14, the steps: get_git_status is entered only from the loop, for an entry
\* that is a directory with a .git subdirectory, which is counted at that
\* moment; the status command runs once per call; every other entry is
\* passed over without any effect.
C14_ClassifyStep ==
    /\ (pc # "git_status" /\ pc' = "git_status") =>
           /\ pc = "loop"
           /\ HasGitDir(item)
           /\ git_repos' = Append(git_repos, item)
    /\ pc = "git_status" => pc' \in {"parse", "fold"}
    /\ (pc = "loop" /\ idx <= Len(listing) /\ ~HasGitDir(item)) =>
           /\ pc' = "loop"
           /\ idx' = idx + 1
           /\ UNCHANGED <<mainVars, parseVars, ret, out>>

\* C14, the outcome: the repositories counted are exactly the classified
\* entries that are directories with a .git subdirectory, once each and in
\* order, and the status command only ever runs for such an entry.
C14_ClassifyOutcome ==
    /\ git_repos = SelectSeq(Classified, HasGitDir)
    /\ InStatus => HasGitDir(item)

\* C14: an entry is a repository exactly when it is a directory that holds
\* a subdirectory named .git; other entries are skipped; the status command
\* runs for exactly the repositories, once each.
C14_ReposAreDirsWithGitDir == [][C14_ClassifyStep]_vars /\ []C14_ClassifyOutcome

\* a listing of a file, a directory whose .git is a file and a repository
\* was gone through, and one repository was counted
C14_Witness ==
    /\ pc = "done"
    /\ Len(listing) = 3
    /\ \E a, b, c \in 1..3 :
          /\ entries[listing[a]].kind = "file"
          /\ entries[listing[b]].kind = "dir" /\ entries[listing[b]].git = "file"
          /\ HasGitDir(listing[c])
          /\ git_repos = <<listing[c]>>

\* ------------------------------------------------------------------------
\* C15
\* ------------------------------------------------------------------------
\* l holds one of the three hint phrases, in any letter case
HoldsHintPhrase(l) ==
    \E h \in {HintUseGit, HintInclude, HintNoChanges} : Contains(Lower(l), h)

\* a non-blank line at the left margin that holds a hint phrase
MarginHint(l) == ~IsBlank(l) /\ ~Indented(l) /\ HoldsHintPhrase(l)

\* C15 as stated: every non-blank, non-indented line with a hint phrase read
\* while a section is active leaves the section and the sequences unchanged.
C15_Original ==
    [][(AtLine /\ current_section # None /\ MarginHint(line)) =>
           (current_section' = current_section /\ status_info' = status_info)]_vars

\* C15, the step: such a line that holds no header string leaves the section
\* and the three sequences unchanged, and the loop moves on.
C15_HintStep ==
    (AtLine /\ current_section # None /\ MarginHint(line) /\ HeaderSection(line) = None) =>
        /\ current_section' = current_section
        /\ status_info' = status_info
        /\ li' = li + 1

\* C15, the history: no line at the left margin is recorded, and a file line
\* is recorded under the section of the most recent header when only blank
\* lines, indented lines and hint lines stand between the two.
C15_HintHistory ==
    Parsing =>
        \A j \in Seen :
            /\ ~Indented(lines[j]) => \A s \in Sections : ~RecordedIn(s, j)
            /\ ( /\ FileLine(lines[j])
                 /\ LastHeader(j) # 0
                 /\ \A m \in (LastHeader(j) + 1)..(j - 1) : ~PlainLine(lines[m]) )
               => RecordedIn(HeaderSection(lines[LastHeader(j)]), j)

\* C15 (amended): while a section is active, a non-blank, non-indented line
\* that holds a hint phrase, in any letter case, and no section header string
\* is skipped: it is not recorded and the section stays, so that indented
\* lines after it are still recorded under that section.
C15_HintLineSkipped == [][C15_HintStep]_vars /\ []C15_HintHistory

\* a file line was recorded under its section after a hint line at the left
\* margin written with a capital letter
C15_Witness ==
    /\ Parsing
    /\ \E j \in Seen : \E m \in 1..(j - 1) :
          /\ MarginHint(lines[m])
          /\ Lower(lines[m]) # lines[m]
          /\ HeaderSection(lines[m]) = None
          /\ LastHeader(m) # 0
          /\ LastHeader(j) = LastHeader(m)
          /\ \A n \in (LastHeader(j) + 1)..(j - 1) : ~PlainLine(lines[n])
          /\ FileLine(lines[j])
          /\ RecordedIn(HeaderSection(lines[LastHeader(j)]), j)

\* ------------------------------------------------------------------------
\* C16
\* ------------------------------------------------------------------------
\* C16, the steps: a parse starts with the section none; while the lines are
\* read the section changes only on a line with a header string, to the
\* section of that header, and on a non-blank, non-indented line without hint
\* phrase read in an active section, to none; a blank line, a hint line at
\* the left margin and an indented line, recorded or filtered, without header
\* string leave it as it is; no other step of the program changes it.
C16_SectionStep ==
    /\ (pc = "git_status" /\ pc' = "parse") => current_section' = None
    /\ (AtLine /\ current_section' # current_section) =>
           \/ /\ HeaderSection(line) # None
              /\ current_section' = HeaderSection(line)
           \/ /\ HeaderSection(line) = None
              /\ current_section # None
              /\ PlainLine(line)
              /\ current_section' = None
    /\ ( /\ AtLine
         /\ HeaderSection(line) = None
         /\ IsBlank(line) \/ MarginHint(line) \/ Indented(line) )
       => current_section' = current_section
    /\ (pc # "git_status" /\ ~AtLine) => current_section' = current_section

\* C16, the values: the section is none, staged, modified or untracked.
C16_SectionValues == current_section \in {None, "staged", "modified", "untracked"}

Recordable(l) == Strip(l) # <<>> /\ ~StartsWith(Strip(l), <<"(">>)

\* this step adds one entry to the sequence of section s and none elsewhere
AddsOneEntry(s) ==
    /\ Len(status_info'[s]) = Len(status_info[s]) + 1
    /\ SubSeq(status_info'[s], 1, Len(status_info[s])) = status_info[s]
    /\ \A o \in Sections \ {s} : status_info'[o] = status_info[o]

\* C17 as stated: every indented line without hint phrase read while a
\* section is active adds one entry under that section if its trimmed text
\* is not empty and does not start with "(", and adds nothing otherwise.
C17_Original ==
    [][(AtLine /\ current_section # None /\ Indented(line) /\ ~IsHint(line)) =>
           IF Recordable(line) THEN AddsOneEntry(current_section)
           ELSE status_info' = status_info]_vars

\* C17, the step: such a line that holds no header string adds one entry
\* under the active section, and under no other, exactly when its trimmed
\* text is not empty and does not start with "(".
C17_EntryStep ==
    ( /\ AtLine
      /\ current_section # None
      /\ Indented(line)
      /\ ~IsHint(line)
      /\ HeaderSection(line) = None )
    => IF Recordable(line) THEN AddsOneEntry(current_section)
       ELSE status_info' = status_info

\* C17, the consequence: no result sequence holds an empty string or a
\* string that starts with "(".
C17_NoEmptyNoParen ==
    \A s \in Sections : \A k \in 1..Len(status_info[s]) :
        /\ status_info[s][k] # <<>>
        /\ status_info[s][k][1] # "("

\* C17 (amended): while a section is active, an indented line that holds
\* neither a hint phrase nor a section header string is recorded as exactly
\* one entry under the active section, and under no other, if and only if its
\* trimmed text is not empty and does not start with "("; no result sequence
\* ever holds an empty string or a string beginning with "(".
C17_IndentedLineRecorded == [][C17_EntryStep]_vars /\ []C17_NoEmptyNoParen

\* in one section an indented line in parentheses without hint phrase and an
\* indented line of blanks were dropped and a file line was recorded
C17_Witness ==
    /\ Parsing
    /\ \E j \in Seen : \E p, b \in 1..(j - 1) :
          /\ LastHeader(p) # 0
          /\ LastHeader(j) = LastHeader(p)
          /\ LastHeader(b) = LastHeader(p)
          /\ Indented(lines[p]) /\ ~IsHint(lines[p]) /\ StartsWith(Strip(lines[p]), <<"(">>)
          /\ Indented(lines[b]) /\ IsBlank(lines[b])
          /\ \A s \in Sections : ~RecordedIn(s, p) /\ ~RecordedIn(s, b)
          /\ FileLine(lines[j]) /\ ~IsHint(lines[j])
          /\ RecordedIn(HeaderSection(lines[LastHeader(j)]), j)

\* ------------------------------------------------------------------------
\* C18
\* ------------------------------------------------------------------------
\* C18 as stated: no element of a result sequence holds a hint phrase, in
\* any letter case.
C18_Original ==
    \A s \in Sections : \A k \in 1..Len(status_info[s]) : ~IsHint(status_info[s][k])

\* C18 (amended): a line with a hint phrase that is not indented, or whose
\* trimmed text starts with "(", is never recorded; an element of a result
\* sequence holds a hint phrase only if it was read from an indented line
\* whose trimmed text does not start with "(".
C18_HintLinesNotRecorded ==
    Parsing =>
        /\ \A j \in Seen :
               (IsHint(lines[j]) /\ (~Indented(lines[j]) \/ StartsWith(Strip(lines[j]), <<"(">>)))
               => \A s \in Sections : ~RecordedIn(s, j)
        /\ \A s \in Sections : \A k \in 1..Len(status_info[s]) :
               IsHint(status_info[s][k]) =>
                   /\ Indented(lines[origin[s][k]])
                   /\ ~StartsWith(Strip(lines[origin[s][k]]), <<"(">>)

\* a hint line in parentheses and a hint line at the left margin were
\* dropped, an indented line with a hint phrase was recorded
C18_Witness ==
    /\ ParseDone
    /\ lines = ScenarioHints
    /\ origin.untracked = <<4, 5>>
    /\ IsHint(status_info.untracked[1])

\* ------------------------------------------------------------------------
\* C19
\* ------------------------------------------------------------------------
\* C19, the step: a line that holds a header string anywhere, indented or
\* not, in a section or not, sets the section to the first of staged,
\* modified, untracked whose header string it holds, and is dropped.
C19_HeaderStep ==
    ( /\ AtLine
      /\ \/ Contains(line, HeaderStaged)
         \/ Contains(line, HeaderModified)
         \/ Contains(line, HeaderUntracked) )
    => /\ current_section' =
              IF Contains(line, HeaderStaged) THEN "staged"
              ELSE IF Contains(line, HeaderModified) THEN "modified"
              ELSE "untracked"
       /\ status_info' = status_info
       /\ li' = li + 1

\* C19: the header test is a substring test made on every line before the
\* indentation and section tests: a line with a header string anywhere
\* switches the section and is dropped, and of several header strings in one
\* line the first of staged, modified, untracked decides.
C19_HeaderSubstringFirst == [][C19_HeaderStep]_vars

\* an indented line with a header string in its path switched the section
\* from modified to untracked, and a line with the untracked and the staged
\* header switched it to staged
C19_Witness ==
    /\ ParseDone
    /\ lines = ScenarioHeaders
    /\ ret = Some([staged |-> <<B>>, modified |-> <<ModA>>, untracked |-> <<B>>])

\* ------------------------------------------------------------------------
\* C20
\* ------------------------------------------------------------------------
\* C20, the step: every parse starts at the first line of its own output
\* with the section none and three empty sequences.
C20_FreshStep ==
    (pc = "git_status" /\ pc' = "parse") =>
        /\ current_section' = None
        /\ status_info' = EmptyInfo
        /\ lines' = SplitLines(entries[item].output)
        /\ li' = 1

\* C20, the outcome: whatever was parsed before, the value returned for a
\* repository is the report of its own status output, and two repositories
\* with the same output are listed with the same report.
C20_OwnOutputOnly ==
    /\ ParseDone => ret = ExpectedReport(entries[item].output)
    /\ \A a, b \in 1..Len(repos_with_changes) :
           entries[repos_with_changes[a].name].output =
               entries[repos_with_changes[b].name].output
           => repos_with_changes[a].status = repos_with_changes[b].status

\* C20: the report of a repository depends on its own status output only:
\* section and sequences are made anew for every parse, a section left
\* active by one output records no line of a later output, and the same
\* output gives the same result after any earlier parses.
C20_ParseIsFresh == [][C20_FreshStep]_vars /\ []C20_OwnOutputOnly

\* after an output that ends inside the modified section, an output of
\* indented lines without header was parsed to None
C20_Witness ==
    /\ ParseDone
    /\ idx = 2
    /\ HasReport(listing[1])
    /\ entries[listing[1]].output = JoinLines(ScenarioModified)
    /\ ChangedNames = <<listing[1]>>
    /\ entries[item].output = JoinLines(ScenarioStray)
    /\ current_section = None
    /\ ret = Absent
====
